---- MODULE Spec2Model ----
(***************************************************************************)
(* naked-sqla: the session factories and sessions of naked_sqla/om and the *)
(* legacy naked_sqla/session.py, over a model of the connection they wrap. *)
(*                                                                         *)
(* A begin() scope is one run of the factory's context manager: it opens a *)
(* connection inside the engine's transaction scope, yields a session to   *)
(* the caller's body, and runs the factory's and the engine's exit logic   *)
(* when the body returns or raises.                                        *)
(***************************************************************************)
EXTENDS Integers, Sequences, FiniteSets, TLC

\* Bounds of the model.
NumSessions == 2        \* begin() scopes of the one factory
MaxCalls == 3           \* session methods called, over all scopes
MaxPairCalls == 2       \* session methods called while scopes overlap
MaxFailCalls == 2       \* session methods called where commit and rollback may fail
MaxRows == 2            \* rows of the events table
MaxJoinRows == 2        \* rows of the join of E1 and E2
MaxShapeCalls == 2      \* execute(), tuples(), scalars() calls of SpecShape
MaxPasses == 2          \* times the caller asks an exhausted result for rows
MaxExecs == 4           \* execute() calls on the one session of SpecExec
NumTasks == 2           \* tasks sharing the one session of SpecRace
MaxRaceCalls == 1       \* execute() calls before the tasks of SpecRace start
MaxRegistered == 2      \* view_table() calls on the one MetaData of SpecView
MaxDdl == 3             \* CREATE VIEW and DROP VIEW statements of SpecView

Sessions == 1..NumSessions

Tasks == 1..NumTasks

\* The names view_table() is called with.
ViewNames == {"EventPeriods", "ActiveBlogs"}

\* The three implementations of the repository.
Impls == {"om_async", "om_sync", "legacy_async"}

\* Statement kinds the caller passes to execute().
StatementKinds == {"Insert", "Select"}

\* The classes of the values execute() is handed: sqlalchemy's dml.Insert,
\* dml.Update, dml.Delete, the postgresql dialect's Insert (pg_insert),
\* Select and TextClause, and a value that is no Executable.
Classes == {"Insert", "PgInsert", "Update", "Delete", "Select", "TextClause", "str"}

\* The values of the column `event`.
Events == {"1", "2"}

\* The RETURNING clause of a mutation, by what its compile state holds:
\*   "none"      no RETURNING (statement._returning is empty)
\*   "entity"    returning(Entity): from_statement_ctx set, not a star
\*   "star"      from_statement_ctx set with compile_options._is_star
\*   "unmapped"  columns with no entity mapping: from_statement_ctx is None
Returnings == {"none", "entity", "star", "unmapped"}

VARIABLES
    impl,           \* which module the factory and its sessions come from
    auto_commit,    \* factory.auto_commit
    pc,             \* per scope: "idle" (begin() not called), "body", "exited"
    state,          \* session.state: "open" | "closed"
    conn,           \* per scope, the connection: [txn, pending, log]
    calls,          \* the number of session methods the bodies called
    last,           \* the latest session call: its scope, its method, how it ended
    outcome,        \* per scope, how begin() ended for the caller:
                    \* "none" | "normal" | "raised" | "interrupted"
    persisted,      \* the rows committed to the database
    body,           \* per scope, how the body ended:
                    \* "none" | "returned" | "raised" | "interrupted"
    table,          \* the rows of the events table, in insertion order
    result,         \* what the latest execute() did and gave back
    handed,         \* the objects earlier execute() calls gave back
    nobj,           \* the number of objects constructed so far
    execs,          \* the number of execute() calls made
    joined,         \* the rows of E1 joined with E2, as the cursor gives them
    stream,         \* the result the latest call of SpecShape returned
    seen,           \* the rows the caller has got out of stream, in order
    task,           \* per task of SpecRace: where it is in commit()/rollback()
    registered,     \* the views registered on the MetaData, in listener order
    views,          \* the names of the views the database holds
    ddl,            \* the CREATE VIEW / DROP VIEW statements emitted, in order
    inspectable     \* whether sa.inspect(connection) gives an inspector

svars == <<auto_commit, pc, state, conn, calls, last, outcome, persisted, body>>
evars == <<table, result, handed, nobj, execs, joined, stream, seen>>
mvars == <<registered, views, ddl, inspectable>>
wvars == <<task, registered, views, ddl, inspectable>>
xvars == <<table, result, handed, nobj, execs, joined, stream, seen, wvars>>
vars == <<impl, auto_commit, pc, state, conn, calls, last, outcome, persisted, body,
          table, result, handed, nobj, execs, joined, stream, seen,
          task, registered, views, ddl, inspectable>>

(***************************************************************************)
(* The connection (SQLAlchemy Connection / AsyncConnection, an external    *)
(* collaborator).  txn is "root" while the transaction opened by           *)
(* engine.begin() is active, "auto" while a transaction begun implicitly   *)
(* by an execute after a commit or rollback is active, and "none"          *)
(* otherwise.  A unit k is the connection together with the database:      *)
(* [txn, pending, log, db].                                                *)
(***************************************************************************)
NoConn == [txn |-> "none", pending |-> {}, log |-> <<>>]

\* The connection engine.begin() yields: inside the engine's transaction.
NewConn == [txn |-> "root", pending |-> {}, log |-> <<>>]

Unit(c, db) == [txn |-> c.txn, pending |-> c.pending, log |-> c.log, db |-> db]

ConnOf(k) == [txn |-> k.txn, pending |-> k.pending, log |-> k.log]

in_transaction(k) == k.txn # "none"

Entry(by, op, kind, ok) == [by |-> by, op |-> op, kind |-> kind, ok |-> ok]

\* conn.commit(): commits the active transaction, if any.
ConnCommit(k, by) ==
    [txn |-> "none",
     pending |-> {},
     log |-> Append(k.log, Entry(by, "commit", "-", TRUE)),
     db |-> IF in_transaction(k) THEN k.db \cup k.pending ELSE k.db]

\* conn.rollback(): rolls the active transaction back, if any.
ConnRollback(k, by) ==
    [txn |-> "none",
     pending |-> {},
     log |-> Append(k.log, Entry(by, "rollback", "-", TRUE)),
     db |-> k.db]

\* conn.commit() or conn.rollback() that raises (SQL error, connection
\* loss): nothing is committed; the transaction is kept, or is lost with
\* what was pending.
ConnFinalFails(k, op, by, left) ==
    [txn |-> IF left = "kept" THEN k.txn ELSE "none",
     pending |-> IF left = "kept" THEN k.pending ELSE {},
     log |-> Append(k.log, Entry(by, op, "-", FALSE)),
     db |-> k.db]

\* The ways the connection may answer a commit or rollback.
FinalAnswers == {"ok", "kept", "lost"}

\* The row an Insert through scope s adds: the next unused row of s.
Inserted(log) == {e \in DOMAIN log : log[e].kind = "Insert" /\ log[e].ok}

NewRow(k, s) == <<s, Cardinality(Inserted(k.log)) + 1>>

\* conn.execute(statement) that the connection accepts.  With no active
\* transaction the connection begins one implicitly.
ConnExecute(k, s, kind, by) ==
    [txn |-> IF in_transaction(k) THEN k.txn ELSE "auto",
     pending |-> IF kind = "Insert" THEN k.pending \cup {NewRow(k, s)} ELSE k.pending,
     log |-> Append(k.log, Entry(by, "execute", kind, TRUE)),
     db |-> k.db]

\* conn.execute(statement) that the connection refuses: inside the engine's
\* transaction scope a connection whose transaction has ended may refuse
\* further statements (InvalidRequestError) instead of beginning a new one.
\* A statement that had no effect is logged without its kind.
ConnRefuse(k, kind, by) ==
    [k EXCEPT !.log = Append(k.log, Entry(by, "execute", "-", FALSE))]

\* conn.execute(statement) that fails in the database (SQL error, connection
\* loss): the statement has no effect and the error is raised.
ConnFail(k, kind, by) ==
    [k EXCEPT !.txn = IF in_transaction(k) THEN k.txn ELSE "auto",
              !.log = Append(k.log, Entry(by, "execute", "-", FALSE))]

\* The ways the connection may answer an execute.
ConnAnswers(k) ==
    IF in_transaction(k) THEN {"accept", "fail"} ELSE {"accept", "fail", "refuse"}

\* What a statement executed on the connection reads.
RowsSeen(k) == k.db \cup k.pending

(***************************************************************************)
(* Errors.                                                                 *)
(***************************************************************************)
NoError == [name |-> "none", state |-> "-", expected |-> "-"]

\* InvalidSessionState(state, expected) of naked_sqla/om/asession.py.
InvalidSessionState(st, expected) ==
    [name |-> "InvalidSessionState", state |-> st, expected |-> expected]

\* Exception("Session is already closed").
PlainException == [name |-> "Exception", state |-> "-", expected |-> "-"]

\* The connection's own error for a statement it refuses.
InvalidRequestError == [name |-> "InvalidRequestError", state |-> "-", expected |-> "-"]

\* The database's error for a statement that failed.
DBAPIError == [name |-> "DBAPIError", state |-> "-", expected |-> "-"]

\* The loader's error for a context that maps no entity.
AttributeError == [name |-> "AttributeError", state |-> "-", expected |-> "-"]

\* A failed `assert`.
AssertionError == [name |-> "AssertionError", state |-> "-", expected |-> "-"]

\* The unreachable arm: assert_never(...).
AssertNever == [name |-> "AssertionError", state |-> "-", expected |-> "-"]

\* What commit() and rollback() raise on a closed session.
ClosedError(i, st) ==
    IF i = "om_async" THEN InvalidSessionState(st, "open") ELSE PlainException

(***************************************************************************)
(* Session: commit, rollback, execute.  Each takes the implementation i,   *)
(* session.state st and the unit k, and gives the state and unit after the *)
(* call, the error raised (NoError when it returns) and the rows returned. *)
(***************************************************************************)
Outcome(st, k, raised, rows) == [state |-> st, k |-> k, raised |-> raised, rows |-> rows]

IsClosedNever(st) == FALSE

\* `if self.state == "closed"`.
IsClosed(st) == st = "closed"

\* `self.state = "closed"` after the connection call returned.
Finalized == "closed"

SessionCommitDeferred(i, st, k) ==
    IF IsClosed(st) THEN Outcome(st, k, ClosedError(i, st), {})
    ELSE Outcome(Finalized, k, NoError, {})

SessionCommitRollsBack(i, st, k) ==
    IF IsClosed(st) THEN Outcome(st, k, ClosedError(i, st), {})
    ELSE Outcome(Finalized, ConnRollback(k, "session"), NoError, {})

SessionCommit(i, st, k) ==
    IF IsClosed(st) THEN Outcome(st, k, ClosedError(i, st), {})
    ELSE IF st = "open" THEN Outcome(Finalized, ConnCommit(k, "session"), NoError, {})
    ELSE Outcome(st, k, AssertNever, {})

SessionRollbackSendsFirst(i, st, k) ==
    IF IsClosed(st) THEN Outcome(st, ConnRollback(k, "session"), ClosedError(i, st), {})
    ELSE Outcome(Finalized, ConnRollback(k, "session"), NoError, {})

SessionRollbackReopens(i, st, k) ==
    IF IsClosed(st) THEN Outcome("open", k, ClosedError(i, st), {})
    ELSE Outcome(Finalized, ConnRollback(k, "session"), NoError, {})

SessionRollback(i, st, k) ==
    IF IsClosed(st) THEN Outcome(st, k, ClosedError(i, st), {})
    ELSE IF st = "open" THEN Outcome(Finalized, ConnRollback(k, "session"), NoError, {})
    ELSE Outcome(st, k, AssertNever, {})

\* The classes a value of class c is an instance of: the postgresql Insert
\* subclasses dml.Insert, and every statement class is an Executable.
Bases(c) ==
    IF c = "PgInsert" THEN {"PgInsert", "Insert", "Executable"}
    ELSE IF c = "str" THEN {"str"}
    ELSE {c, "Executable"}

CommitOverClosesFirst(i, st, k, answer) ==
    IF IsClosed(st) THEN Outcome(st, k, ClosedError(i, st), {})
    ELSE IF answer = "ok" THEN Outcome(Finalized, ConnCommit(k, "session"), NoError, {})
    ELSE Outcome(Finalized, ConnFinalFails(k, "commit", "session", answer), DBAPIError, {})

\* commit() where conn.commit() may raise: `self.state = "closed"` is the
\* statement after `await self.conn.commit()`.
CommitOver(i, st, k, answer) ==
    IF IsClosed(st) THEN Outcome(st, k, ClosedError(i, st), {})
    ELSE IF st = "open"
    THEN IF answer = "ok" THEN Outcome(Finalized, ConnCommit(k, "session"), NoError, {})
         ELSE Outcome(st, ConnFinalFails(k, "commit", "session", answer), DBAPIError, {})
    ELSE Outcome(st, k, AssertNever, {})

\* rollback() where conn.rollback() may raise.
RollbackOver(i, st, k, answer) ==
    IF IsClosed(st) THEN Outcome(st, k, ClosedError(i, st), {})
    ELSE IF st = "open"
    THEN IF answer = "ok" THEN Outcome(Finalized, ConnRollback(k, "session"), NoError, {})
         ELSE Outcome(st, ConnFinalFails(k, "rollback", "session", answer), DBAPIError, {})
    ELSE Outcome(st, k, AssertNever, {})

\* isinstance(statement, cls).
IsInstance(c, cls) == cls \in Bases(c)

\* isinstance(statement, dml.Insert | dml.Update | dml.Delete).
IsMutation(kind) ==
    \/ IsInstance(kind, "Insert")
    \/ IsInstance(kind, "Update")
    \/ IsInstance(kind, "Delete")

ClassifyExecutableFirst(kind) ==
    IF IsInstance(kind, "Executable") THEN "generic"
    ELSE IF IsMutation(kind) THEN "mutation"
    ELSE "never"

ClassifyDefaultGeneric(kind) ==
    IF IsMutation(kind) THEN "mutation" ELSE "generic"

\* The branch execute() takes: the mutation executor, the generic execution
\* path, or assert_never.
Classify(kind) ==
    IF IsMutation(kind) THEN "mutation"
    ELSE IF IsInstance(kind, "Executable") THEN "generic"
    ELSE "never"

ExecutedSwallowsFailure(st, k, s, kind, answer) ==
    IF answer = "accept"
    THEN LET k2 == ConnExecute(k, s, kind, "session")
         IN  Outcome(st, k2, NoError, IF kind = "Select" THEN RowsSeen(k2) ELSE {})
    ELSE Outcome(st, ConnFail(k, kind, "session"), NoError, {})

ExecutedCloses(st, k, s, kind, answer) ==
    IF answer = "accept"
    THEN Outcome("closed", ConnExecute(k, s, kind, "session"), NoError, {})
    ELSE Outcome(st, ConnFail(k, kind, "session"), DBAPIError, {})

\* One conn.execute and its result; answer is the connection's answer.
Executed(st, k, s, kind, answer) ==
    IF answer = "accept"
    THEN LET k2 == ConnExecute(k, s, kind, "session")
         IN  Outcome(st, k2, NoError, IF kind = "Select" THEN RowsSeen(k2) ELSE {})
    ELSE IF answer = "fail"
    THEN Outcome(st, ConnFail(k, kind, "session"), DBAPIError, {})
    ELSE Outcome(st, ConnRefuse(k, kind, "session"), InvalidRequestError, {})

\* execute(): session.state is not read; both paths execute on the connection.
SessionExecute(i, st, k, s, kind, answer) ==
    IF Classify(kind) = "mutation" THEN Executed(st, k, s, kind, answer)
    ELSE IF Classify(kind) = "generic" THEN Executed(st, k, s, kind, answer)
    ELSE Outcome(st, k, AssertNever, {})

(***************************************************************************)
(* The executors behind execute(): what one call gives back for a          *)
(* statement, from the handle the connection returned for it.              *)
(***************************************************************************)
\* A statement: its class, its RETURNING clause, the event value it writes
\* or matches, and for a Select the entity it selects ("table" or "view").
Statement(cls, returning, event, target) ==
    [cls |-> cls, returning |-> returning, event |-> event, target |-> target]

\* The one author of the view's rows: EventPeriod's declared primary key.
AuthorId == 1

Range(f) == {f[x] : x \in DOMAIN f}

RECURSIVE KeepRows(_, _)
KeepRows(sq, keep) ==
    IF sq = <<>> THEN <<>>
    ELSE IF Head(sq) \in keep THEN <<Head(sq)>> \o KeepRows(Tail(sq), keep)
    ELSE KeepRows(Tail(sq), keep)

NextId(tbl) ==
    IF tbl = <<>> THEN 1
    ELSE 1 + CHOOSE m \in {r.id : r \in Range(tbl)} :
                 \A r \in Range(tbl) : r.id <= m

\* The rows UPDATE ... WHERE id IN (rows whose successor by time has the
\* event) touches: those directly before a row with that event.
LeadMatches(tbl, event) ==
    {x \in DOMAIN tbl : x + 1 \in DOMAIN tbl /\ tbl[x + 1].event = event}

\* The database executing the statement: the table afterwards and the
\* cursor handle, with the rows of the RETURNING clause or of the query.
Handle(rows, rowcount) == [rows |-> rows, rowcount |-> rowcount]

DbExecute(tbl, stmt) ==
    IF IsInstance(stmt.cls, "Insert")
    THEN LET row == [id |-> NextId(tbl), event |-> stmt.event]
         IN  [table |-> Append(tbl, row),
              handle |-> Handle(IF stmt.returning = "none" THEN <<>> ELSE <<row>>, 1)]
    ELSE IF stmt.cls = "Update"
    THEN LET hit == LeadMatches(tbl, stmt.event)
             new == [x \in DOMAIN tbl |->
                       IF x \in hit THEN [tbl[x] EXCEPT !.event = stmt.event]
                       ELSE tbl[x]]
         IN  [table |-> new,
              handle |-> Handle(IF stmt.returning = "none" THEN <<>>
                                ELSE KeepRows(new, {new[x] : x \in hit}),
                                Cardinality(hit))]
    ELSE IF stmt.cls = "Delete"
    THEN LET gone == {r \in Range(tbl) : r.event = stmt.event}
         IN  [table |-> KeepRows(tbl, Range(tbl) \ gone),
              handle |-> Handle(IF stmt.returning = "none" THEN <<>>
                                ELSE KeepRows(tbl, gone),
                                Cardinality(gone))]
    ELSE IF stmt.target = "view"
    THEN [table |-> tbl,
          handle |-> Handle([x \in DOMAIN tbl |->
                               [id |-> AuthorId, event |-> tbl[x].event]], -1)]
    ELSE [table |-> tbl, handle |-> Handle(tbl, -1)]

\* What execute() gave back: the handle as the connection returned it, a
\* sequence of objects built from its rows, or an error.  `built` tells
\* whether the loader was asked to construct entities.
Returned(shape, handle, objects, built, raised) ==
    [shape |-> shape, handle |-> handle, objects |-> objects,
     built |-> built, raised |-> raised]

Raw(handle) == Returned("raw", handle, <<>>, FALSE, NoError)

\* compile_state.from_statement_ctx and its compile_options._is_star.
from_statement_ctx(returning) == returning \in {"entity", "star"}
is_star(returning) == returning = "star"

\* instances(result, querycontext): one new object per row, in row order,
\* when the context maps the columns to an entity; with no such mapping
\* the loader, asked to build all the same, raises or builds what it can.
instances(handle, mapped, base, loader) ==
    IF mapped \/ loader = "builds"
    THEN Returned("objects", handle,
                  [x \in DOMAIN handle.rows |-> [oid |-> base + x, val |-> handle.rows[x]]],
                  TRUE, NoError)
    ELSE Returned("error", handle, <<>>, TRUE, AttributeError)

return_orm_returningRaw(i, returning, handle, base, loader) == Raw(handle)

\* _return_orm_returning of om/bulk_persistent.py and of bulk_persistent.py.
return_orm_returning(i, returning, handle, base, loader) ==
    IF i \in {"om_async", "om_sync"}
    THEN IF from_statement_ctx(returning) /\ ~is_star(returning)
         THEN instances(handle, TRUE, base, loader)
         ELSE Raw(handle)
    ELSE instances(handle, from_statement_ctx(returning) /\ ~is_star(returning),
                   base, loader)

bulk_orm_execute_statementAlwaysLoads(i, returning, handle, base, loader) ==
    instances(handle, from_statement_ctx(returning) /\ ~is_star(returning), base, loader)

\* bulk_persistent.orm_execute_statement after conn.execute returned handle.
bulk_orm_execute_statement(i, returning, handle, base, loader) ==
    IF returning = "none" THEN Raw(handle)
    ELSE return_orm_returning(i, returning, handle, base, loader)

context_orm_execute_statementReusing(i, compiled, handle, base, loader) ==
    IF ~compiled THEN Returned("error", handle, <<>>, FALSE, AssertionError)
    ELSE instances(handle, TRUE, 0, loader)

\* context.orm_execute_statement after conn.execute returned handle:
\* `assert compile_state`, then instances(result, querycontext).
context_orm_execute_statement(i, compiled, handle, base, loader) ==
    IF ~compiled THEN Returned("error", handle, <<>>, FALSE, AssertionError)
    ELSE instances(handle, TRUE, base, loader)

NoHandle == Handle(<<>>, 0)

(***************************************************************************)
(* Selects of several targets, and the result object the caller reads.     *)
(* A cursor row of the join of E1 and E2 is <<E1.id, E1.event, E2.id,      *)
(* E2.event>>.                                                             *)
(***************************************************************************)
\* One target of a projection: an entity built from the columns cols of the
\* cursor row, or one plain column.
Entity(name, cols) == [kind |-> "entity", name |-> name, cols |-> cols]
Column(col) == [kind |-> "column", name |-> "-", cols |-> <<col>>]

\* The compile state's description of a Select's projection:
\*   "pair"     select(E1, E2)
\*   "columns"  select(E1.event, E2.event)
\*   "single"   select(E1)
Projections == {"pair", "columns", "single"}

Targets(projection) ==
    IF projection = "pair" THEN <<Entity("E1", <<1, 2>>), Entity("E2", <<3, 4>>)>>
    ELSE IF projection = "columns" THEN <<Column(1), Column(2)>>
    ELSE <<Entity("E1", <<1, 2>>)>>

\* The cursor rows the database returns for the Select, in its row order.
DbSelect(jn, projection) ==
    IF projection = "pair" THEN jn
    ELSE IF projection = "columns" THEN [x \in DOMAIN jn |-> <<jn[x][2], jn[x][4]>>]
    ELSE [x \in DOMAIN jn |-> <<jn[x][1], jn[x][2]>>]

\* The entities among the targets before position j.
EntitiesBefore(targets, j) ==
    Cardinality({d \in DOMAIN targets : d < j /\ targets[d].kind = "entity"})

\* instances(result, querycontext) for a projection of several targets: per
\* cursor row a tuple with, per target, a new entity built from the
\* target's columns of that row, or the plain column's value as it is.
instances_targets(rows, targets, base) ==
    [x \in DOMAIN rows |->
        [j \in DOMAIN targets |->
            IF targets[j].kind = "entity"
            THEN [entity |-> targets[j].name,
                  oid |-> base + (x - 1) * EntitiesBefore(targets, Len(targets) + 1)
                               + EntitiesBefore(targets, j) + 1,
                  val |-> [id |-> rows[x][targets[j].cols[1]],
                           event |-> rows[x][targets[j].cols[2]]]]
            ELSE rows[x][targets[j].cols[1]]]]

\* The Result the caller holds: its rows, how many of them the caller has
\* fetched, and how often it was asked for rows when it had none left.
ResultOf(rows) == [rows |-> rows, pos |-> 0, passes |-> 0]

\* Result.tuples(): the same rows, typed as tuples.
ResultTuples(res) == res

\* Result.scalars(): the first element of each row.
ResultScalars(res) == [res EXCEPT !.rows = [x \in DOMAIN res.rows |-> res.rows[x][1]]]

ResultFetchRewinding(res, n) ==
    IF res.pos = Len(res.rows)
    THEN [res EXCEPT !.pos = 0, !.passes = res.passes + 1]
    ELSE [res EXCEPT !.pos = res.pos + n]

\* Fetching n of the rows left moves the cursor forward by n; a result with
\* no rows left gives none and stays where it is.
ResultFetch(res, n) ==
    IF res.pos = Len(res.rows)
    THEN [res EXCEPT !.passes = res.passes + 1]
    ELSE [res EXCEPT !.pos = res.pos + n]

select_executeReversed(i, projection, jn, base) ==
    ResultOf(instances_targets(DbSelect(jn, projection),
                               [j \in DOMAIN Targets(projection) |->
                                   Targets(projection)[Len(Targets(projection)) + 1 - j]],
                               base))

\* execute(select(...)): the generic path, context.orm_execute_statement,
\* with the targets of the statement's compile state.
select_execute(i, projection, jn, base) ==
    ResultOf(instances_targets(DbSelect(jn, projection), Targets(projection), base))

scalarsOfLast(i, projection, jn, base) ==
    LET res == select_execute(i, projection, jn, base)
    IN  [res EXCEPT !.rows = [x \in DOMAIN res.rows |-> res.rows[x][Len(res.rows[x])]]]

\* tuples(): (await self.execute(statement, ...)).tuples().
tuples(i, projection, jn, base) ==
    ResultTuples(select_execute(i, projection, jn, base))

\* scalars(): (await self.execute(statement, ...)).scalars().
scalars(i, projection, jn, base) ==
    ResultScalars(select_execute(i, projection, jn, base))

\* execute(statement): the branch taken, whether the statement reached the
\* connection, the table afterwards and what the caller got.
Ran(stmt, route, sent, tbl, got) ==
    [stmt |-> stmt, route |-> route, sent |-> sent, table |-> tbl, got |-> got]

execute(i, stmt, tbl, base, compiled, loader) ==
    IF Classify(stmt.cls) = "mutation"
    THEN LET db == DbExecute(tbl, stmt)
         IN  Ran(stmt, "mutation", TRUE, db.table,
                 bulk_orm_execute_statement(i, stmt.returning, db.handle, base, loader))
    ELSE IF Classify(stmt.cls) = "generic"
    THEN LET db == DbExecute(tbl, stmt)
         IN  Ran(stmt, "generic", TRUE, db.table,
                 context_orm_execute_statement(i, compiled, db.handle, base, loader))
    ELSE Ran(stmt, "never", FALSE, tbl,
             Returned("error", NoHandle, <<>>, FALSE, AssertNever))

(***************************************************************************)
(* Session factory: the exit logic of begin(), then the exit of the        *)
(* enclosing engine.begin() scope.                                         *)
(***************************************************************************)
FactoryExitNormalNoCommit(i, ac, k) ==
    IF in_transaction(k) THEN ConnRollback(k, "factory") ELSE k

FactoryExitNormalNoRollback(i, ac, k) ==
    IF ac THEN ConnCommit(k, "factory") ELSE k

FactoryExitNormalBlindRollback(i, ac, k) ==
    IF ac THEN ConnCommit(k, "factory") ELSE ConnRollback(k, "factory")

FactoryExitNormalOnlyAsync(i, ac, k) ==
    IF ac THEN ConnCommit(k, "factory")
    ELSE IF i = "om_async" /\ in_transaction(k) THEN ConnRollback(k, "factory")
    ELSE k

\* After the yield returned normally.
FactoryExitNormal(i, ac, k) ==
    IF ac THEN ConnCommit(k, "factory")
    ELSE IF i # "legacy_async" /\ in_transaction(k) THEN ConnRollback(k, "factory")
    ELSE k

FactoryExitRaisedNoRollback(i, ac, k) == k

FactoryExitRaisedCommits(i, ac, k) ==
    IF ac THEN ConnCommit(k, "factory") ELSE k

\* `except Exception as err`: the body raised.
FactoryExitRaised(i, ac, k) ==
    IF ac THEN ConnRollback(k, "factory") ELSE k

ReraisesOnlyAfterRollback(i, ac) == ac

\* `raise err`, the last statement of the handler, outside `if self.auto_commit`.
Reraises(i, ac) == TRUE

FactoryExitOverUnguarded(i, ac, k, answer) ==
    IF answer = "ok" \/ FactoryExitNormal(i, ac, k) = k
    THEN [k |-> FactoryExitNormal(i, ac, k), raised |-> FALSE]
    ELSE [k |-> ConnFinalFails(k, IF ac THEN "commit" ELSE "rollback", "factory", answer),
          raised |-> TRUE]

\* After the yield returned normally, where the factory's conn.commit() or
\* conn.rollback() may raise: the call stands inside the `try`, so the
\* handler runs on its error.
FactoryExitOver(i, ac, k, answer) ==
    IF answer = "ok" \/ FactoryExitNormal(i, ac, k) = k
    THEN [k |-> FactoryExitNormal(i, ac, k), raised |-> FALSE]
    ELSE [k |-> FactoryExitRaised(i, ac,
                    ConnFinalFails(k, IF ac THEN "commit" ELSE "rollback",
                                   "factory", answer)),
          raised |-> Reraises(i, ac)]

\* engine.begin() on exit: its transaction, if still active, is committed on
\* a normal exit and rolled back on an error; closing the connection then
\* rolls back whatever transaction is left.
EngineExit(k, normal) ==
    IF k.txn = "root" /\ normal THEN ConnCommit(k, "engine")
    ELSE IF in_transaction(k) THEN ConnRollback(k, "engine")
    ELSE k

(***************************************************************************)
(* Actions.                                                                *)
(***************************************************************************)
NoCall == [s |-> 0, op |-> "none", raised |-> NoError, rows |-> {}]

\* No execute() yet.
NoRun == Ran(Statement("none", "none", "-", "-"), "none", FALSE, <<>>, Raw(NoHandle))

\* No result held by the caller.
NoStream == [method |-> "none", projection |-> "none", res |-> ResultOf(<<>>)]

\* The executor's variables before the first execute() of SpecExec.
\* No task has called the session.
NoTasks == task = [t \in Tasks |-> [at |-> "idle", op |-> "none", raised |-> NoError]]

\* A MetaData with no view registered, over a database with no view.
NoViews ==
    /\ registered = <<>>
    /\ views = {}
    /\ ddl = <<>>
    /\ inspectable = TRUE

\* No statement executed and no result held.
NoRuns ==
    /\ table = <<>>
    /\ result = NoRun
    /\ handed = {}
    /\ nobj = 0
    /\ execs = 0
    /\ joined = <<>>
    /\ stream = NoStream
    /\ seen = <<>>

NoExecs ==
    /\ NoTasks
    /\ NoViews
    /\ NoRuns

\* No begin() scope yet.
NoScopes ==
    /\ pc = [s \in Sessions |-> "idle"]
    /\ state = [s \in Sessions |-> "none"]
    /\ conn = [s \in Sessions |-> NoConn]
    /\ calls = 0
    /\ last = NoCall
    /\ outcome = [s \in Sessions |-> "none"]
    /\ persisted = {}
    /\ body = [s \in Sessions |-> "none"]

Init ==
    /\ impl \in Impls
    /\ auto_commit \in BOOLEAN
    /\ NoScopes
    /\ NoExecs

OpenWithoutState(s) ==
    /\ pc[s] = "idle"
    /\ pc' = [pc EXCEPT ![s] = "body"]
    /\ conn' = [conn EXCEPT ![s] = NewConn]
    /\ UNCHANGED <<impl, auto_commit, state, calls, last, outcome, persisted, body>>
    /\ UNCHANGED xvars

\* factory.begin() up to the yield: engine.begin() opens the connection and
\* its transaction, and a new session is constructed over it.
Open(s) ==
    /\ pc[s] = "idle"
    /\ pc' = [pc EXCEPT ![s] = "body"]
    /\ state' = [state EXCEPT ![s] = "open"]
    /\ conn' = [conn EXCEPT ![s] = NewConn]
    /\ UNCHANGED <<impl, auto_commit, calls, last, outcome, persisted, body>>
    /\ UNCHANGED xvars

\* The caller opens its scopes one after another: scope s + 1 after scope s
\* has exited.
Begin(s) ==
    /\ \A t \in Sessions : t < s => pc[t] = "exited"
    /\ Open(s)

CalledSharingState(s, op, r) ==
    /\ state' = [t \in Sessions |-> IF state[t] = "none" THEN "none" ELSE r.state]
    /\ conn' = [conn EXCEPT ![s] = ConnOf(r.k)]
    /\ persisted' = r.k.db
    /\ calls' = calls + 1
    /\ last' = [s |-> s, op |-> op, raised |-> r.raised, rows |-> r.rows]
    /\ UNCHANGED <<impl, auto_commit, pc, outcome, body>>
    /\ UNCHANGED xvars

\* The body called the session method op, which ended as r.
Called(s, op, r) ==
    /\ state' = [state EXCEPT ![s] = r.state]
    /\ conn' = [conn EXCEPT ![s] = ConnOf(r.k)]
    /\ persisted' = r.k.db
    /\ calls' = calls + 1
    /\ last' = [s |-> s, op |-> op, raised |-> r.raised, rows |-> r.rows]
    /\ UNCHANGED <<impl, auto_commit, pc, outcome, body>>
    /\ UNCHANGED xvars

InBody(s) == pc[s] = "body" /\ calls < MaxCalls

Commit(s) ==
    /\ InBody(s)
    /\ Called(s, "commit", SessionCommit(impl, state[s], Unit(conn[s], persisted)))

Rollback(s) ==
    /\ InBody(s)
    /\ Called(s, "rollback", SessionRollback(impl, state[s], Unit(conn[s], persisted)))

Execute(s) ==
    /\ InBody(s)
    /\ \E kind \in StatementKinds, answer \in ConnAnswers(conn[s]) :
          Called(s, "execute",
                 SessionExecute(impl, state[s], Unit(conn[s], persisted), s, kind, answer))

TuplesExecutingTwice(s) ==
    /\ InBody(s)
    /\ \E kind \in StatementKinds, answer \in ConnAnswers(conn[s]) :
          LET r == SessionExecute(impl, state[s], Unit(conn[s], persisted), s, kind, answer)
          IN  Called(s, "tuples", SessionExecute(impl, r.state, r.k, s, kind, "accept"))

\* tuples() and scalars() call self.execute and re-shape its result.
Tuples(s) ==
    /\ InBody(s)
    /\ \E kind \in StatementKinds, answer \in ConnAnswers(conn[s]) :
          Called(s, "tuples",
                 SessionExecute(impl, state[s], Unit(conn[s], persisted), s, kind, answer))

Scalars(s) ==
    /\ InBody(s)
    /\ \E kind \in StatementKinds, answer \in ConnAnswers(conn[s]) :
          Called(s, "scalars",
                 SessionExecute(impl, state[s], Unit(conn[s], persisted), s, kind, answer))

ExitedClosingSession(s, k, how) ==
    /\ pc' = [pc EXCEPT ![s] = "exited"]
    /\ state' = [state EXCEPT ![s] = "closed"]
    /\ conn' = [conn EXCEPT ![s] = ConnOf(k)]
    /\ persisted' = k.db
    /\ outcome' = [outcome EXCEPT ![s] = how]
    /\ UNCHANGED <<impl, auto_commit, calls, last>>
    /\ UNCHANGED xvars

\* The scope ended: the connection and the database after the exit logic.
Exited(s, k, how) ==
    /\ pc' = [pc EXCEPT ![s] = "exited"]
    /\ conn' = [conn EXCEPT ![s] = ConnOf(k)]
    /\ persisted' = k.db
    /\ outcome' = [outcome EXCEPT ![s] = how]
    /\ UNCHANGED <<impl, auto_commit, state, calls, last>>
    /\ UNCHANGED xvars

ExitNormalRaisingWhenClosed(s) ==
    /\ pc[s] = "body"
    /\ body' = [body EXCEPT ![s] = "returned"]
    /\ Exited(s, EngineExit(FactoryExitNormal(impl, auto_commit,
                                              Unit(conn[s], persisted)),
                            state[s] # "closed"),
              IF state[s] = "closed" THEN "raised" ELSE "normal")

\* The body returned.
ExitNormal(s) ==
    /\ pc[s] = "body"
    /\ body' = [body EXCEPT ![s] = "returned"]
    /\ Exited(s, EngineExit(FactoryExitNormal(impl, auto_commit,
                                              Unit(conn[s], persisted)), TRUE),
              "normal")

\* The body raised an Exception (its own, or one a session call raised):
\* the handler cleans up and the error goes on to the engine's scope and the
\* caller, unless the handler swallowed it.
ExitRaised(s) ==
    /\ pc[s] = "body"
    /\ body' = [body EXCEPT ![s] = "raised"]
    /\ Exited(s, EngineExit(FactoryExitRaised(impl, auto_commit,
                                              Unit(conn[s], persisted)),
                            ~Reraises(impl, auto_commit)),
              IF Reraises(impl, auto_commit) THEN "raised" ELSE "normal")

ExitInterruptedNoEngineScope(s) ==
    /\ pc[s] = "body"
    /\ body' = [body EXCEPT ![s] = "interrupted"]
    /\ Exited(s, Unit(conn[s], persisted), "interrupted")

ExitInterruptedHandled(s) ==
    /\ pc[s] = "body"
    /\ body' = [body EXCEPT ![s] = "interrupted"]
    /\ Exited(s, EngineExit(FactoryExitRaised(impl, auto_commit,
                                              Unit(conn[s], persisted)), FALSE),
              "interrupted")

\* The body was left by a BaseException that is no Exception (task
\* cancellation, KeyboardInterrupt, GeneratorExit): `except Exception` does
\* not catch it, and only the engine's scope reacts.
ExitInterrupted(s) ==
    /\ pc[s] = "body"
    /\ body' = [body EXCEPT ![s] = "interrupted"]
    /\ Exited(s, EngineExit(Unit(conn[s], persisted), FALSE), "interrupted")

Next ==
    \E s \in Sessions :
        \/ Begin(s)
        \/ Commit(s)
        \/ Rollback(s)
        \/ Execute(s)
        \/ Tuples(s)
        \/ Scalars(s)
        \/ ExitNormal(s)
        \/ ExitRaised(s)
        \/ ExitInterrupted(s)

Spec == Init /\ [][Next]_vars

\* The caller holds several scopes of the one factory open at a time (tasks
\* of one event loop, threads, or nested `with` blocks), and the sessions'
\* calls interleave.
NextPair ==
    \E s \in Sessions :
        \/ Open(s)
        \/ calls < MaxPairCalls /\ Commit(s)
        \/ calls < MaxPairCalls /\ Rollback(s)
        \/ calls < MaxPairCalls /\ Execute(s)
        \/ ExitNormal(s)
        \/ ExitRaised(s)

SpecPair == Init /\ [][NextPair]_vars

\* Scopes whose connection may fail a commit or a rollback.
CommitAnswered(s) ==
    /\ InBody(s)
    /\ calls < MaxFailCalls
    /\ \E answer \in FinalAnswers :
          Called(s, "commit", CommitOver(impl, state[s], Unit(conn[s], persisted), answer))

RollbackAnswered(s) ==
    /\ InBody(s)
    /\ calls < MaxFailCalls
    /\ \E answer \in FinalAnswers :
          Called(s, "rollback",
                 RollbackOver(impl, state[s], Unit(conn[s], persisted), answer))

\* The body returned, and the connection answers the factory's call.
ExitNormalAnswered(s) ==
    /\ pc[s] = "body"
    /\ body' = [body EXCEPT ![s] = "returned"]
    /\ \E answer \in FinalAnswers :
          LET r == FactoryExitOver(impl, auto_commit, Unit(conn[s], persisted), answer)
          IN  Exited(s, EngineExit(r.k, ~r.raised),
                     IF r.raised THEN "raised" ELSE "normal")

NextFail ==
    \E s \in Sessions :
        \/ Begin(s)
        \/ CommitAnswered(s)
        \/ RollbackAnswered(s)
        \/ calls < MaxFailCalls /\ Execute(s)
        \/ ExitNormalAnswered(s)
        \/ ExitRaised(s)

SpecFail == Init /\ [][NextFail]_vars

(***************************************************************************)
(* One open session executing statements on the events table.              *)
(***************************************************************************)
\* The statements the caller passes: inserts (also the postgresql one),
\* the lead-window update and a delete, each with any RETURNING clause;
\* selects of the entity and of the view; a text clause; a plain string.
Statements ==
    {Statement(c, r, e, "table") :
        c \in {"Insert", "PgInsert", "Update", "Delete"}, r \in Returnings, e \in Events}
    \cup {Statement("Select", "none", "-", tg) : tg \in {"table", "view"}}
    \cup {Statement(c, "none", "-", "table") : c \in {"TextClause", "str"}}

InitExec ==
    /\ impl \in Impls
    /\ auto_commit = TRUE
    /\ NoScopes
    /\ NoExecs

\* session.execute(stmt).  The compiler gives a Select a compile state and
\* may give a text clause none; the loader's answer matters only when it
\* is asked to build entities from a context that maps none.
SessionExecuteStatement(stmt) ==
    /\ execs < MaxExecs
    /\ IsInstance(stmt.cls, "Insert") => Len(table) < MaxRows
    /\ \E compiled \in IF stmt.cls = "TextClause" THEN BOOLEAN ELSE {TRUE},
          loader \in IF /\ impl = "legacy_async"
                        /\ Classify(stmt.cls) = "mutation"
                        /\ stmt.returning \in {"star", "unmapped"}
                     THEN {"builds", "raises"} ELSE {"builds"} :
          LET ran == execute(impl, stmt, table, nobj, compiled, loader)
          IN  /\ result' = ran
              /\ table' = ran.table
              /\ handed' = handed \cup Range(result.got.objects)
              /\ nobj' = nobj + Len(ran.got.objects)
              /\ execs' = execs + 1
    /\ UNCHANGED <<impl, svars, joined, stream, seen, wvars>>

NextExec == \E stmt \in Statements : SessionExecuteStatement(stmt)

SpecExec == InitExec /\ [][NextExec]_vars

(***************************************************************************)
(* One open session selecting from the join of E1 and E2, and the caller   *)
(* reading the results.                                                    *)
(***************************************************************************)
\* The joins the database may hold: row x joins the E1 and the E2 of id x.
JoinTables ==
    UNION {[1..n -> Events \X Events] : n \in 0..MaxJoinRows}

JoinRows(events) == [x \in DOMAIN events |-> <<x, events[x][1], x, events[x][2]>>]

InitShape ==
    /\ impl \in Impls
    /\ auto_commit = TRUE
    /\ NoScopes
    /\ NoTasks
    /\ NoViews
    /\ table = <<>>
    /\ result = NoRun
    /\ handed = {}
    /\ nobj = 0
    /\ execs = 0
    /\ \E events \in JoinTables : joined = JoinRows(events)
    /\ stream = NoStream
    /\ seen = <<>>

\* The entities a result holds.
EntitiesOf(rows, projection) ==
    Len(rows) * EntitiesBefore(Targets(projection), Len(Targets(projection)) + 1)

\* The caller got res from the session method and has read nothing yet.
Got(method, projection, res) ==
    /\ execs < MaxShapeCalls
    /\ stream' = [method |-> method, projection |-> projection, res |-> res]
    /\ seen' = <<>>
    /\ nobj' = nobj + EntitiesOf(DbSelect(joined, projection), projection)
    /\ execs' = execs + 1
    /\ UNCHANGED <<impl, svars, table, result, handed, joined, wvars>>

SelectExecute(projection) ==
    Got("execute", projection, select_execute(impl, projection, joined, nobj))

SelectTuples(projection) ==
    Got("tuples", projection, tuples(impl, projection, joined, nobj))

SelectScalars(projection) ==
    Got("scalars", projection, scalars(impl, projection, joined, nobj))

\* The caller fetches one row (next, first, one) or all remaining rows
\* (all, a for loop), also of a result that has none left.
Fetch(n) ==
    /\ stream.method # "none"
    /\ stream.res.passes < MaxPasses
    /\ stream' = [stream EXCEPT !.res = ResultFetch(stream.res, n)]
    /\ seen' = seen \o SubSeq(stream.res.rows, stream.res.pos + 1, stream'.res.pos)
    /\ UNCHANGED <<impl, svars, table, result, handed, nobj, execs, joined, wvars>>

FetchOne == Fetch(IF stream.res.pos = Len(stream.res.rows) THEN 0 ELSE 1)

FetchAll == Fetch(Len(stream.res.rows) - stream.res.pos)

NextShape ==
    \/ \E projection \in Projections :
          \/ SelectExecute(projection)
          \/ SelectTuples(projection)
          \/ SelectScalars(projection)
    \/ FetchOne
    \/ FetchAll

SpecShape == InitShape /\ [][NextShape]_vars

(***************************************************************************)
(* Vocabulary of the properties.                                           *)
(***************************************************************************)
ExecMethods == {"execute", "tuples", "scalars"}

FinalMethods == {"commit", "rollback"}

\* This step is a call by the body of scope s of one of the methods ops.
CallStep(s, ops) == calls' = calls + 1 /\ last'.s = s /\ last'.op \in ops

\* This step is the exit of scope s, in the way how.
ExitStep(s, how) == pc[s] = "body" /\ pc'[s] = "exited" /\ outcome'[s] = how

\* The positions of the log at which the session finalized the transaction.
SessionFinals(log, ops) ==
    {e \in DOMAIN log : log[e].by = "session" /\ log[e].op \in ops}

\* A commit() or rollback() of the session of scope s has succeeded.
Finalised(s) == SessionFinals(conn[s].log, FinalMethods) # {}

\* The rows the scope's body wrote through its session, by log position.
RowsFrom(log, s, from) ==
    {<<s, Cardinality({d \in Inserted(log) : d <= e})>> :
        e \in {x \in Inserted(log) : x > from}}

Latest(S) == IF S = {} THEN 0 ELSE CHOOSE e \in S : \A d \in S : d <= e

WritesOf(s) == RowsFrom(conn[s].log, s, 0)

WritesSinceRollback(s) ==
    RowsFrom(conn[s].log, s, Latest(SessionFinals(conn[s].log, {"rollback"})))

WritesSinceCommit(s) ==
    RowsFrom(conn[s].log, s, Latest(SessionFinals(conn[s].log, {"commit"})))

LastEntry(log) == log[Len(log)]

(***************************************************************************)
(* Session lifecycle.                                                      *)
(***************************************************************************)
\* C1: once a commit() or rollback() of a session has succeeded, every later
\* commit() or rollback() on it raises the closed-session error of its
\* implementation, reaches the connection with nothing, and leaves the
\* session closed.
C1_ClosedRejectsFinalize ==
    [][\A s \in Sessions :
          (Finalised(s) /\ CallStep(s, FinalMethods))
              => /\ last'.raised = ClosedError(impl, "closed")
                 /\ state'[s] = "closed"
                 /\ conn'[s] = conn[s]]_vars

\* A second commit() or rollback() was made on a finalized session and was
\* rejected.
C1_Witness ==
    /\ last.op \in FinalMethods
    /\ last.raised = ClosedError(impl, "closed")
    /\ Finalised(last.s)
    /\ state[last.s] = "closed"

\* C2: execute(), tuples() and scalars() on a session closed by commit() or
\* rollback() raise the closed-session error and send no statement to the
\* connection.
C2_ExecuteRejectedWhenClosed ==
    [][\A s \in Sessions :
          (state[s] = "closed" /\ CallStep(s, ExecMethods))
              => /\ last'.raised = ClosedError(impl, "closed")
                 /\ conn'[s].log = conn[s].log]_vars

\* C3: a session's state changes only from open to closed; once closed it is
\* closed in every later state.
C3_OpenToClosedOnly ==
    [][\A s \in Sessions :
          /\ state[s] = "closed" => state'[s] = "closed"
          /\ (state[s] = "open" /\ state'[s] # "open") => state'[s] = "closed"]_vars

\* A call was made on a closed session, failed, and the session is closed.
C3_Witness ==
    /\ last.s \in Sessions
    /\ state[last.s] = "closed"
    /\ last.raised # NoError
    /\ calls >= 2

\* C4: the error commit() and rollback() raise on a closed session is the
\* named InvalidSessionState error carrying the current state (closed) and
\* the expected state (open), in every implementation.
C4_NamedInvalidState ==
    (last.op \in FinalMethods /\ last.raised # NoError)
        => last.raised = InvalidSessionState("closed", "open")

\* C5: on an open session commit() sends exactly one commit, and rollback()
\* exactly one rollback, to its connection and nothing else; when the call
\* has returned the session is closed.
C5_OneFinalizeThenClosed ==
    [][\A s \in Sessions : \A op \in FinalMethods :
          (state[s] = "open" /\ CallStep(s, {op}) /\ last'.raised = NoError)
              => /\ conn'[s].log = Append(conn[s].log, Entry("session", op, "-", TRUE))
                 /\ state'[s] = "closed"]_vars

\* commit() returned on a session that had written a row: the row is
\* committed and the session closed.
C5_Witness ==
    /\ last.op = "commit"
    /\ last.raised = NoError
    /\ state[last.s] = "closed"
    /\ WritesOf(last.s) # {}
    /\ WritesOf(last.s) \subseteq persisted

\* C6: execute(), tuples() and scalars() leave the session as it was, whether
\* they return or raise: its state is unchanged and it is bound to the same
\* connection, whose history the call only extends, no other connection
\* being touched.
C6_ExecuteKeepsSession ==
    [][\A s \in Sessions :
          CallStep(s, ExecMethods)
              => /\ state'[s] = state[s]
                 /\ \A u \in Sessions \ {s} : conn'[u] = conn[u]
                 /\ Len(conn'[s].log) >= Len(conn[s].log)
                 /\ SubSeq(conn'[s].log, 1, Len(conn[s].log)) = conn[s].log]_vars

\* An execute raised on an open session after two earlier calls, and the
\* session is still open.
C6_Witness ==
    /\ last.op \in ExecMethods
    /\ last.raised = DBAPIError
    /\ state[last.s] = "open"
    /\ Len(conn[last.s].log) = 3

(***************************************************************************)
(* Scopes of begin().                                                      *)
(***************************************************************************)
OmImpls == {"om_async", "om_sync"}

EndedAs(s, how) == pc[s] = "exited" /\ outcome[s] = how

\* C7 as stated: after a normal exit of a scope of a factory with
\* auto_commit, every row written through the session during the scope is
\* committed.
C7_AllWritesPersisted ==
    \A s \in Sessions :
        (auto_commit /\ EndedAs(s, "normal")) => WritesOf(s) \subseteq persisted

\* C7, amended: after a normal exit of a scope of a factory with auto_commit,
\* every row written through the session since the body's last successful
\* session.rollback() (every row, when it made none) is committed.
C7_WritesSinceRollbackPersisted ==
    \A s \in Sessions :
        (auto_commit /\ EndedAs(s, "normal")) => WritesSinceRollback(s) \subseteq persisted

\* A scope with auto_commit wrote a row and exited normally, and the session
\* of the next scope read that row back.
C7_Witness ==
    /\ auto_commit
    /\ EndedAs(1, "normal")
    /\ WritesOf(1) # {}
    /\ last.s = 2
    /\ last.op \in ExecMethods
    /\ WritesOf(1) \subseteq last.rows

\* The scope was left by an error the body raised.
EndedByError(s) == EndedAs(s, "raised") \/ EndedAs(s, "interrupted")

\* C8 as stated: after a scope of a factory with auto_commit was left by an
\* error, no row written through the session during the scope is committed.
C8_NoWritePersisted ==
    \A s \in Sessions :
        (auto_commit /\ EndedByError(s)) => WritesOf(s) \cap persisted = {}

\* C8, amended: after a scope of a factory with auto_commit was left by an
\* error, no row written through the session since the body's last successful
\* session.commit() (no row at all, when it made none) is committed, and the
\* connection's transaction has ended when the error reaches the caller.
C8_WritesSinceCommitRolledBack ==
    \A s \in Sessions :
        (auto_commit /\ EndedByError(s))
            => /\ WritesSinceCommit(s) \cap persisted = {}
               /\ ~in_transaction(conn[s])

\* A scope with auto_commit wrote a row and was left by an error, and the
\* session of the next scope read the table without that row.
C8_Witness ==
    /\ auto_commit
    /\ EndedAs(1, "raised")
    /\ WritesOf(1) # {}
    /\ last.s = 2
    /\ last.op \in ExecMethods
    /\ last.raised = NoError
    /\ WritesOf(1) \cap last.rows = {}

\* C9: in naked_sqla.om, with auto_commit disabled, a normal exit while the
\* connection's transaction is still active makes the factory send one
\* rollback: the database is unchanged and the rows of that transaction are
\* not committed.
C9_ActiveTransactionRolledBack ==
    [][\A s \in Sessions :
          (/\ ExitStep(s, "normal")
           /\ ~auto_commit
           /\ impl \in OmImpls
           /\ in_transaction(conn[s]))
              => /\ persisted' = persisted
                 /\ conn'[s].log = Append(conn[s].log, Entry("factory", "rollback", "-", TRUE))
                 /\ ~in_transaction(conn'[s])]_vars

\* A scope of naked_sqla.om without auto_commit wrote a row, neither
\* committed nor rolled back, and exited normally: the row is not committed.
C9_Witness ==
    /\ ~auto_commit
    /\ impl \in OmImpls
    /\ EndedAs(1, "normal")
    /\ ~Finalised(1)
    /\ WritesOf(1) # {}
    /\ WritesOf(1) \cap persisted = {}
    /\ LastEntry(conn[1].log) = Entry("factory", "rollback", "-", TRUE)

\* C10: with auto_commit disabled, when the last call the connection got from
\* the body is the session's commit, the normal exit sends the connection
\* neither a commit nor a rollback and leaves the database as committed.
C10_ExplicitCommitIsFinal ==
    [][\A s \in Sessions :
          (/\ ExitStep(s, "normal")
           /\ ~auto_commit
           /\ conn[s].log # <<>>
           /\ LastEntry(conn[s].log) = Entry("session", "commit", "-", TRUE))
              => /\ conn'[s].log = conn[s].log
                 /\ persisted' = persisted
                 /\ WritesOf(s) \subseteq persisted']_vars

\* A scope without auto_commit wrote a row, committed it through the session
\* and exited normally: the row is committed and the commit is the last call
\* its connection got.
C10_Witness ==
    /\ ~auto_commit
    /\ EndedAs(1, "normal")
    /\ WritesOf(1) # {}
    /\ WritesOf(1) \subseteq persisted
    /\ LastEntry(conn[1].log) = Entry("session", "commit", "-", TRUE)

\* The calls the connection of scope s got from the exit logic in this step.
ExitCalls(s) == SubSeq(conn'[s].log, Len(conn[s].log) + 1, Len(conn'[s].log))

\* The calls the connection of scope s got from the factory and the engine.
ExitEntries(s) == {e \in DOMAIN conn[s].log : conn[s].log[e].by # "session"}

\* C11: once a scope has exited, in whichever way and whatever the body did
\* with the session, its connection is in no active transaction.
C11_NoDanglingTransaction ==
    \A s \in Sessions : pc[s] = "exited" => ~in_transaction(conn[s])

\* A scope without auto_commit wrote a row, did not finalize and was left by
\* an error: the engine's scope rolled the transaction back.
C11_Witness ==
    /\ ~auto_commit
    /\ EndedByError(1)
    /\ ~Finalised(1)
    /\ WritesOf(1) # {}
    /\ LastEntry(conn[1].log) = Entry("engine", "rollback", "-", TRUE)
    /\ ~in_transaction(conn[1])

C13_ErrorPropagates ==
    \A s \in Sessions :
        (pc[s] = "exited" /\ body[s] \in {"raised", "interrupted"})
            => /\ outcome[s] = body[s]
               /\ \A e \in ExitEntries(s) : conn[s].log[e].op = "rollback"

\* The body of a scope without auto_commit raised an Exception after a
\* session call had raised, and begin() raised to the caller.
C13_Witness ==
    /\ ~auto_commit
    /\ pc[1] = "exited"
    /\ body[1] = "raised"
    /\ outcome[1] = "raised"
    /\ last.s = 1
    /\ last.raised # NoError

\* C14: begin() opens one connection with its transaction and one session
\* in state open for the scope and touches no other scope; no step changes
\* the factory's engine binding and auto_commit; and a session that closes
\* changes neither the state nor the connection of another session.
C14_SessionsIndependent ==
    [][/\ impl' = impl
       /\ auto_commit' = auto_commit
       /\ \A s \in Sessions :
            /\ (pc[s] = "idle" /\ pc'[s] = "body")
                  => /\ conn'[s] = NewConn
                     /\ state'[s] = "open"
                     /\ \A t \in Sessions \ {s} :
                           /\ conn'[t] = conn[t]
                           /\ state'[t] = state[t]
                           /\ pc'[t] = pc[t]
            /\ (state[s] = "open" /\ state'[s] = "closed")
                  => \A t \in Sessions \ {s} :
                        /\ state'[t] = state[t]
                        /\ conn'[t] = conn[t]]_vars

\* Two scopes of the factory are open at a time; the first session has been
\* closed by its commit, the second is open with its transaction active.
C14_Witness ==
    /\ pc[1] = "body"
    /\ pc[2] = "body"
    /\ state[1] = "closed"
    /\ state[2] = "open"
    /\ last = [s |-> 1, op |-> "commit", raised |-> NoError, rows |-> {}]
    /\ in_transaction(conn[2])

\* An execute() call of SpecExec has just been made.
ExecStep == execs' = execs + 1

MutationClasses == {"Insert", "PgInsert", "Update", "Delete"}

\* The identities of a set or sequence of objects.
Oids(objs) == {o.oid : o \in objs}

\* The objects are one per row of the handle, in row order, each with its
\* own row's values, and are new: distinct from each other and from every
\* object in earlier.
BuiltFromRows(got, earlier) ==
    /\ got.shape = "objects"
    /\ got.raised = NoError
    /\ Len(got.objects) = Len(got.handle.rows)
    /\ \A x \in DOMAIN got.objects : got.objects[x].val = got.handle.rows[x]
    /\ \A x, y \in DOMAIN got.objects : x # y => got.objects[x].oid # got.objects[y].oid
    /\ Oids(Range(got.objects)) \cap Oids(earlier) = {}

\* C15: execute() takes the mutation executor for every Insert (the
\* postgresql one included), Update and Delete, and the generic path for
\* every other Executable.
C15_ClassifiedByKind ==
    /\ result.stmt.cls \in MutationClasses => result.route = "mutation"
    /\ result.stmt.cls \in {"Select", "TextClause"} => result.route = "generic"

\* A postgresql insert returning its entity went through the mutation
\* executor and came back as an object.
C15_Witness ==
    /\ result.stmt.cls = "PgInsert"
    /\ result.stmt.returning = "entity"
    /\ result.route = "mutation"
    /\ result.got.shape = "objects"

\* C16: execute() of a value that is no statement raises, returns nothing,
\* and nothing reaches the connection: the table stays as it was.
C16_UnclassifiableFails ==
    [][(ExecStep /\ result'.stmt.cls = "str")
          => /\ result'.got.raised = AssertNever
             /\ result'.got.shape = "error"
             /\ result'.got.objects = <<>>
             /\ ~result'.sent
             /\ table' = table
             /\ nobj' = nobj]_vars

\* After rows had been inserted, execute() was handed a string and raised.
C16_Witness ==
    /\ result.stmt.cls = "str"
    /\ result.got.raised = AssertNever
    /\ ~result.sent
    /\ table # <<>>

\* C17: a mutation with no RETURNING gives back the handle the connection
\* returned, as it is, and no entity is built.
C17_NoReturningRaw ==
    [][(ExecStep /\ result'.stmt.cls \in MutationClasses
                 /\ result'.stmt.returning = "none")
          => /\ result'.got = Raw(DbExecute(table, result'.stmt).handle)
             /\ ~result'.got.built
             /\ nobj' = nobj]_vars

\* A delete with no RETURNING removed a row and came back as the raw
\* handle with its row count.
C17_Witness ==
    /\ result.stmt.cls = "Delete"
    /\ result.stmt.returning = "none"
    /\ result.got.shape = "raw"
    /\ result.got.handle.rowcount = 1
    /\ result.got.raised = NoError

\* C18: a mutation with RETURNING of its entity gives back one new object
\* per row the database returned for this statement, with that row's
\* values, and none of the objects of earlier calls; the lead-window update
\* of the rows (1, "1"), (2, "2") gives back the one row (1, "2").
C18_ReturningFromDatabase ==
    [][(ExecStep /\ result'.stmt.cls \in MutationClasses
                 /\ result'.stmt.returning = "entity")
          => /\ result'.got.handle = DbExecute(table, result'.stmt).handle
             /\ BuiltFromRows(result'.got, handed')
             /\ (/\ table = <<[id |-> 1, event |-> "1"], [id |-> 2, event |-> "2"]>>
                 /\ result'.stmt.cls = "Update"
                 /\ result'.stmt.event = "2")
                   => /\ Len(result'.got.objects) = 1
                      /\ result'.got.objects[1].val = [id |-> 1, event |-> "2"]]_vars

\* Two inserts returned the rows (1, "1") and (2, "2") as objects; the
\* update returning its entity then gave back one new object, (1, "2").
C18_Witness ==
    /\ {o.val : o \in handed} = {[id |-> 1, event |-> "1"], [id |-> 2, event |-> "2"]}
    /\ result.stmt.cls = "Update"
    /\ result.stmt.returning = "entity"
    /\ Len(result.got.objects) = 1
    /\ result.got.objects[1].val = [id |-> 1, event |-> "2"]
    /\ result.got.objects[1].oid \notin Oids(handed)

\* C19 as stated: with every mutation executor, a mutation whose RETURNING
\* is a star or maps no entity gives back the raw handle, raises nothing and
\* builds no entity.
C19_StarReturningRaw ==
    [][(ExecStep /\ result'.stmt.cls \in MutationClasses
                 /\ result'.stmt.returning \in {"star", "unmapped"})
          => /\ result'.got.shape = "raw"
             /\ result'.got.raised = NoError
             /\ ~result'.got.built]_vars

\* C20: the generic path gives back one new object per row, in row order,
\* each with its own row's values, also for rows sharing the primary key
\* and for rows an earlier call returned: objects of earlier calls are
\* never given back again.
C20_NoIdentityMerging ==
    [][(ExecStep /\ result'.route = "generic" /\ result'.got.raised = NoError)
          => /\ result'.got.handle = DbExecute(table, result'.stmt).handle
             /\ BuiltFromRows(result'.got, handed')]_vars

\* The view was selected twice: its two rows share the primary key and
\* differ in event; the second call gave back two new objects, equal in
\* value to the two of the first call.
C20_Witness ==
    /\ result.stmt.cls = "Select"
    /\ result.stmt.target = "view"
    /\ Len(result.got.objects) = 2
    /\ result.got.objects[1].val.id = result.got.objects[2].val.id
    /\ result.got.objects[1].val.event # result.got.objects[2].val.event
    /\ result.got.objects[1].oid # result.got.objects[2].oid
    /\ \A x \in {1, 2} :
          \E o \in handed : /\ o.val = result.got.objects[x].val
                            /\ o.oid # result.got.objects[x].oid

(***************************************************************************)
(* Calls of one session and its connection.                                *)
(***************************************************************************)
\* The connection call a session method makes.
ConnOp(method) == IF method \in ExecMethods THEN "execute" ELSE method

\* C22: execute(), tuples() and scalars() on an open session each make one
\* execute call on the connection, which is all they add to its history.
C22_OneExecutionPerCall ==
    [][\A s \in Sessions :
          (state[s] = "open" /\ CallStep(s, ExecMethods))
              => /\ Len(conn'[s].log) = Len(conn[s].log) + 1
                 /\ SubSeq(conn'[s].log, 1, Len(conn[s].log)) = conn[s].log
                 /\ LastEntry(conn'[s].log).op = "execute"
                 /\ LastEntry(conn'[s].log).by = "session"]_vars

\* scalars() of a Select returned on an open session: the connection got
\* the one execute.
C22_Witness ==
    /\ last.op = "scalars"
    /\ last.raised = NoError
    /\ state[last.s] = "open"
    /\ conn[last.s].log = <<Entry("session", "execute", "Select", TRUE)>>

\* C23: every session call that returns has put its one connection call at
\* the end of the connection's history, a call that raises has put there
\* nothing or the one call the connection failed, and no other step adds a
\* call of the session: the calls the connection carried out for the session
\* are the session's successful calls, in program order.
C23_ProgramOrder ==
    [][\A s \in Sessions :
          LET log == conn[s].log
              new == conn'[s].log
              got == Entry("session", ConnOp(last'.op), "-", TRUE)
          IN  /\ CallStep(s, ExecMethods \cup FinalMethods)
                    => /\ last'.raised = NoError
                          => /\ Len(new) = Len(log) + 1
                             /\ SubSeq(new, 1, Len(log)) = log
                             /\ LastEntry(new).by = got.by
                             /\ LastEntry(new).op = got.op
                             /\ LastEntry(new).ok
                       /\ last'.raised # NoError
                          => \/ new = log
                             \/ new = Append(log, [got EXCEPT !.ok = FALSE])
              /\ ~CallStep(s, ExecMethods \cup FinalMethods)
                    => SessionFinals(new, ExecMethods \cup FinalMethods)
                         = SessionFinals(log, ExecMethods \cup FinalMethods)]_vars

\* Three calls of one session returned: the connection got an execute, an
\* execute and a rollback, in this order.
C23_Witness ==
    /\ calls = 3
    /\ last.op = "rollback"
    /\ last.raised = NoError
    /\ Len(conn[last.s].log) = 3
    /\ conn[last.s].log[1].op = "execute"
    /\ conn[last.s].log[2].op = "execute"
    /\ conn[last.s].log[3] = Entry("session", "rollback", "-", TRUE)

\* C24: when the connection fails or refuses the statement, execute(),
\* tuples() and scalars() raise the connection's error, return no rows and
\* leave the session's state as it was.
C24_ExecutionFailurePropagates ==
    [][\A s \in Sessions :
          (/\ CallStep(s, ExecMethods)
           /\ Len(conn'[s].log) = Len(conn[s].log) + 1
           /\ ~LastEntry(conn'[s].log).ok)
              => /\ last'.raised = IF in_transaction(conn'[s]) THEN DBAPIError
                                   ELSE InvalidRequestError
                 /\ last'.rows = {}
                 /\ state'[s] = state[s]]_vars

\* The first call on a session, tuples(), failed in the database: the error
\* was raised and the session is open.
C24_Witness ==
    /\ last.op = "tuples"
    /\ last.raised = DBAPIError
    /\ state[last.s] = "open"
    /\ conn[last.s].log = <<Entry("session", "execute", "-", FALSE)>>

\* The rows the body of scope s wrote before its session's rollback().
WritesRolledBack(s) == WritesOf(s) \ WritesSinceRollback(s)

\* C25: when the body of a scope of a factory with auto_commit has rolled
\* back through its session and returned, begin() ends normally and none of
\* the rows written before the rollback is persisted.
C25_ExplicitRollbackHolds ==
    \A s \in Sessions :
        (/\ auto_commit
         /\ pc[s] = "exited"
         /\ body[s] = "returned"
         /\ SessionFinals(conn[s].log, {"rollback"}) # {})
            => /\ outcome[s] = "normal"
               /\ WritesRolledBack(s) \cap persisted = {}

\* With auto_commit the body wrote a row, rolled back and returned: the
\* factory's commit came last and the row is not persisted.
C25_Witness ==
    /\ auto_commit
    /\ EndedAs(1, "normal")
    /\ WritesRolledBack(1) # {}
    /\ WritesRolledBack(1) \cap persisted = {}
    /\ LastEntry(conn[1].log) = Entry("factory", "commit", "-", TRUE)
    /\ conn[1].log[Len(conn[1].log) - 1] = Entry("session", "rollback", "-", TRUE)

\* C28: the state of a constructed session is open or closed, it is open
\* while the session's connection has been used for nothing, and commit()
\* and rollback() never end in their assert_never branch.
C28_OpenOrClosed ==
    /\ \A s \in Sessions :
          /\ pc[s] # "idle" => state[s] \in {"open", "closed"}
          /\ (pc[s] = "body" /\ conn[s] = NewConn) => state[s] = "open"
    /\ last.op \in FinalMethods => last.raised # AssertNever

\* The first session was closed by a commit() or rollback() and its scope
\* left; the session of the second scope has just been constructed.
C28_Witness ==
    /\ pc[1] = "exited"
    /\ state[1] = "closed"
    /\ last.op \in FinalMethods
    /\ last.raised = NoError
    /\ pc[2] = "body"
    /\ conn[2] = NewConn
    /\ state[2] = "open"

\* C30: commit() and rollback() on a closed session change nothing: not the
\* connection and its transaction, not the session's state, not the
\* database, not any scope's outcome.
C30_RejectedFinalizeNoEffect ==
    [][\A s \in Sessions :
          (state[s] = "closed" /\ CallStep(s, FinalMethods))
              => /\ conn' = conn
                 /\ state' = state
                 /\ persisted' = persisted
                 /\ outcome' = outcome]_vars

\* A closed session's connection has begun a transaction anew for a later
\* insert; rollback() was then rejected and the transaction is still active
\* with its row pending.
C30_Witness ==
    /\ last.op = "rollback"
    /\ last.raised = ClosedError(impl, "closed")
    /\ state[last.s] = "closed"
    /\ conn[last.s].txn = "auto"
    /\ conn[last.s].pending # {}

\* The commits and rollbacks of the session the connection failed, and
\* those it carried out.
FailedFinals(log) ==
    {e \in DOMAIN log : log[e].by = "session" /\ log[e].op \in FinalMethods /\ ~log[e].ok}

DoneFinals(log) ==
    {e \in DOMAIN log : log[e].by = "session" /\ log[e].op \in FinalMethods /\ log[e].ok}

\* C29: when the connection's commit or rollback raises inside commit() or
\* rollback() of an open session, the error is raised and the session stays
\* open; a session whose commits and rollbacks have all failed so far does
\* not reject the next commit() or rollback() as closed.
C29_FailedFinalizeStaysOpen ==
    [][\A s \in Sessions :
          /\ (/\ state[s] = "open"
              /\ CallStep(s, FinalMethods)
              /\ FailedFinals(conn'[s].log) # FailedFinals(conn[s].log))
                => /\ last'.raised = DBAPIError
                   /\ state'[s] = "open"
          /\ (/\ FailedFinals(conn[s].log) # {}
              /\ DoneFinals(conn[s].log) = {}
              /\ CallStep(s, FinalMethods))
                => /\ last'.raised \in {NoError, DBAPIError}
                   /\ Len(conn'[s].log) = Len(conn[s].log) + 1]_vars

\* commit() raised the connection's error on an open session; the
\* rollback() after it was accepted and closed the session.
C29_Witness ==
    /\ last.op = "rollback"
    /\ last.raised = NoError
    /\ state[last.s] = "closed"
    /\ conn[last.s].log = <<Entry("session", "commit", "-", FALSE),
                            Entry("session", "rollback", "-", TRUE)>>

(***************************************************************************)
(* Shapes of results.                                                      *)
(***************************************************************************)
\* The entity of the given name built from the columns c1 and c2 of the
\* cursor row.
IsEntityFrom(e, name, row, c1, c2) ==
    /\ DOMAIN e = {"entity", "oid", "val"}
    /\ e.entity = name
    /\ e.val = [id |-> row[c1], event |-> row[c2]]

\* C21: for select(E1, E2), tuples() gives one row per row of the join, in
\* the join's order, each a pair of an E1 built from the E1 columns and an
\* E2 built from the E2 columns of that row; scalars() gives per row only
\* the E1.
C21_TupleAndScalarShape ==
    (stream.projection = "pair" /\ stream.method \in {"tuples", "scalars"})
        => /\ Len(stream.res.rows) = Len(joined)
           /\ \A x \in DOMAIN joined :
                 LET row == stream.res.rows[x]
                 IN  IF stream.method = "tuples"
                     THEN /\ Len(row) = 2
                          /\ IsEntityFrom(row[1], "E1", joined[x], 1, 2)
                          /\ IsEntityFrom(row[2], "E2", joined[x], 3, 4)
                     ELSE IsEntityFrom(row, "E1", joined[x], 1, 2)

\* The caller has read both rows tuples() gave for select(E1, E2): pairs of
\* an E1 and an E2, which in the first row differ in their event.
C21_Witness ==
    /\ stream.projection = "pair"
    /\ stream.method = "tuples"
    /\ Len(seen) = 2
    /\ seen[1][1].entity = "E1"
    /\ seen[1][2].entity = "E2"
    /\ seen[1][1].val.event # seen[1][2].val.event
    /\ seen[2][1].val.id = 2

\* C26: for select(E1.event, E2.event), execute() and tuples() give one row
\* per row of the join, in the join's order, holding the two column values
\* of that row as they are; no entity is among them.
C26_ColumnsPassThrough ==
    (stream.projection = "columns" /\ stream.method \in {"execute", "tuples"})
        => /\ Len(stream.res.rows) = Len(joined)
           /\ \A x \in DOMAIN joined :
                 stream.res.rows[x] = <<joined[x][2], joined[x][4]>>

\* The caller has read both rows execute() gave for the two event columns;
\* the first holds two different values, in selection order.
C26_Witness ==
    /\ stream.projection = "columns"
    /\ stream.method = "execute"
    /\ Len(seen) = 2
    /\ seen[1] = <<joined[1][2], joined[1][4]>>
    /\ seen[1][1] # seen[1][2]
    /\ seen[2] = <<joined[2][2], joined[2][4]>>

\* C27: what the caller has got out of a result is always the rows before
\* its cursor, in cursor order; without a new call the cursor never moves
\* back, and a result with no rows left gives no row.
C27_SinglePass ==
    [][/\ seen' = SubSeq(stream'.res.rows, 1, stream'.res.pos)
       /\ execs' = execs
             => /\ stream'.res.rows = stream.res.rows
                /\ stream'.res.pos >= stream.res.pos
                /\ SubSeq(seen', 1, Len(seen)) = seen
                /\ stream.res.pos = Len(stream.res.rows) => seen' = seen]_vars

\* The same select was executed a second time; the caller has read its two
\* rows and has asked the exhausted result twice more, getting nothing.
C27_Witness ==
    /\ execs = 2
    /\ stream.projection = "single"
    /\ stream.res.passes = 2
    /\ stream.res.pos = 2
    /\ seen = stream.res.rows
    /\ Len(seen) = 2


(***************************************************************************)
(* The factory's exit logic and the session object.                        *)
(***************************************************************************)
\* C31: the exit of a begin() scope, in whichever way, leaves the state of
\* the yielded session as it was: the factory finalizes on the connection,
\* never through the session, so a session the body neither committed nor
\* rolled back is still open after the exit.
C31_ExitKeepsSessionState ==
    [][\A s \in Sessions :
          (pc[s] = "body" /\ pc'[s] = "exited")
              => /\ state'[s] = state[s]
                 /\ ~Finalised(s) => state'[s] = "open"]_vars

\* A scope with auto_commit wrote a row and exited normally without a
\* commit() or rollback() of the session: the factory committed the row on
\* the connection and the session still reports open.
C31_Witness ==
    /\ auto_commit
    /\ EndedAs(1, "normal")
    /\ ~Finalised(1)
    /\ state[1] = "open"
    /\ WritesOf(1) # {}
    /\ WritesOf(1) \subseteq persisted
    /\ LastEntry(conn[1].log) = Entry("factory", "commit", "-", TRUE)

\* C33: when the body is left by an error that is no Exception (task
\* cancellation, KeyboardInterrupt, generator close), the factory sends the
\* connection neither a commit nor a rollback, also with auto_commit: every
\* call the connection gets at that exit comes from the engine's scope.
C33_InterruptBypassesFactory ==
    [][\A s \in Sessions :
          ExitStep(s, "interrupted")
              => \A e \in DOMAIN ExitCalls(s) : ExitCalls(s)[e].by = "engine"]_vars

\* A scope with auto_commit wrote a row and was cancelled before any
\* commit() or rollback(): the only call of the exit is the engine's
\* rollback, and the row is not committed.
C33_Witness ==
    /\ auto_commit
    /\ EndedAs(1, "interrupted")
    /\ ~Finalised(1)
    /\ WritesOf(1) # {}
    /\ WritesOf(1) \cap persisted = {}
    /\ ExitEntries(1) = {Len(conn[1].log)}
    /\ LastEntry(conn[1].log) = Entry("engine", "rollback", "-", TRUE)

\* C36 as stated: in the legacy factory (naked_sqla/session.py) without
\* auto_commit, a scope whose body neither committed nor rolled back and that
\* exits normally has its transaction rolled back: none of its writes is
\* committed.
C36_LegacyRollsBackOnExit ==
    \A s \in Sessions :
        (/\ impl = "legacy_async"
         /\ ~auto_commit
         /\ EndedAs(s, "normal")
         /\ ~Finalised(s))
            => WritesOf(s) \cap persisted = {}


\* C32: with auto_commit, when the commit the factory sends at the normal
\* exit of a scope raises, the next call the connection gets is the
\* factory's rollback, nothing is committed and the scope ends by the error,
\* never normally.
C32_FailedExitCommitRollsBack ==
    [][\A s \in Sessions :
          (/\ pc[s] = "body" /\ pc'[s] = "exited"
           /\ auto_commit
           /\ ExitCalls(s) # <<>>
           /\ ExitCalls(s)[1] = Entry("factory", "commit", "-", FALSE))
              => /\ Len(ExitCalls(s)) >= 2
                 /\ ExitCalls(s)[2] = Entry("factory", "rollback", "-", TRUE)
                 /\ outcome'[s] = "raised"
                 /\ persisted' = persisted]_vars

\* The body of a scope with auto_commit wrote a row and returned, the
\* factory's commit raised: the factory rolled back, the scope ended by the
\* error and the row is not committed.
C32_Witness ==
    /\ auto_commit
    /\ body[1] = "returned"
    /\ EndedAs(1, "raised")
    /\ WritesOf(1) # {}
    /\ WritesOf(1) \cap persisted = {}
    /\ \E e \in DOMAIN conn[1].log :
          /\ conn[1].log[e] = Entry("factory", "commit", "-", FALSE)
          /\ e < Len(conn[1].log)
          /\ conn[1].log[e + 1] = Entry("factory", "rollback", "-", TRUE)


(***************************************************************************)
(* The synchronous and the asynchronous implementation.                    *)
(***************************************************************************)
\* Two outcomes of a session call that agree in the session state, the
\* connection, the database and the rows returned, and that both return or
\* both raise: the same error, or each the closed-session error of its
\* implementation.
SameButErrorType(a, b, st) ==
    /\ a.state = b.state
    /\ a.k = b.k
    /\ a.rows = b.rows
    /\ \/ a.raised = b.raised
       \/ /\ a.raised = ClosedError("om_sync", st)
          /\ b.raised = ClosedError("om_async", st)

FinalizeEntered(i, st, k, op) ==
    IF IsClosed(st) THEN [at |-> "raised", k |-> k, raised |-> ClosedError(i, st)]
    ELSE IF st = "open"
    THEN [at |-> "awaiting",
          k |-> IF op = "commit" THEN ConnCommit(k, "session")
                ELSE ConnRollback(k, "session"),
          raised |-> NoError]
    ELSE [at |-> "raised", k |-> k, raised |-> AssertNever]

TaskCallsClosingFirst(t, op) ==
    /\ pc[1] = "body"
    /\ task[t].at = "idle"
    /\ LET r == FinalizeEntered(impl, state[1], Unit(conn[1], persisted), op)
       IN  /\ task' = [task EXCEPT ![t] = [at |-> r.at, op |-> op, raised |-> r.raised]]
           /\ conn' = [conn EXCEPT ![1] = ConnOf(r.k)]
           /\ persisted' = r.k.db
    /\ state' = [state EXCEPT ![1] = Finalized]
    /\ UNCHANGED <<impl, auto_commit, pc, calls, last, outcome, body>>
    /\ UNCHANGED <<evars, mvars>>

\* Task t calls session.commit() or session.rollback() and runs to the
\* await, or to the raise.
TaskCalls(t, op) ==
    /\ pc[1] = "body"
    /\ task[t].at = "idle"
    /\ LET r == FinalizeEntered(impl, state[1], Unit(conn[1], persisted), op)
       IN  /\ task' = [task EXCEPT ![t] = [at |-> r.at, op |-> op, raised |-> r.raised]]
           /\ conn' = [conn EXCEPT ![1] = ConnOf(r.k)]
           /\ persisted' = r.k.db
    /\ UNCHANGED <<impl, auto_commit, pc, state, calls, last, outcome, body>>
    /\ UNCHANGED <<evars, mvars>>

\* The connection call of task t has returned: `self.state = "closed"`.
TaskResumes(t) ==
    /\ task[t].at = "awaiting"
    /\ state' = [state EXCEPT ![1] = Finalized]
    /\ task' = [task EXCEPT ![t].at = "returned"]
    /\ UNCHANGED <<impl, auto_commit, pc, conn, calls, last, outcome, persisted, body>>
    /\ UNCHANGED <<evars, mvars>>

\* The tasks are over: none is idle or at its await.
TasksDone == \A t \in Tasks : task[t].at \in {"returned", "raised"}

InitRace ==
    /\ impl \in {"om_async", "legacy_async"}
    /\ auto_commit \in BOOLEAN
    /\ NoScopes
    /\ NoExecs

\* The body of one scope executes statements, then hands its session to the
\* tasks (asyncio.gather) and ends when they are over.
NextRace ==
    \/ Begin(1)
    \/ calls < MaxRaceCalls /\ NoTasks /\ Execute(1)
    \/ \E t \in Tasks, op \in FinalMethods : TaskCalls(t, op)
    \/ \E t \in Tasks : TaskResumes(t)
    \/ TasksDone /\ (\A t \in Tasks : task[t].raised = NoError) /\ ExitNormal(1)
    \/ TasksDone /\ (\E t \in Tasks : task[t].raised # NoError) /\ ExitRaised(1)

SpecRace == InitRace /\ [][NextRace]_vars

\* C34 as stated: of the commit() and rollback() calls that tasks make
\* concurrently on one open AsyncSession at most one reaches the connection,
\* and of any two such calls one fails with the closed-session error.
C34_AtMostOneReachesConnection ==
    /\ Cardinality(SessionFinals(conn[1].log, FinalMethods)) <= 1
    /\ \A t, u \in Tasks :
          (t # u /\ task[t].at # "idle" /\ task[u].at # "idle")
              => \/ task[t].raised = ClosedError(impl, "closed")
                 \/ task[u].raised = ClosedError(impl, "closed")


\* The tasks whose call has reached the connection.
Reached == {t \in Tasks : task[t].at \in {"awaiting", "returned"}}

\* C34: a commit() or rollback() that a task starts on the shared session
\* leaves the session state as it is up to its await.  It raises the
\* closed-session error and reaches the connection with nothing when a call
\* has returned before; otherwise, also while another call is at its await,
\* it sends the connection its commit or rollback.  So the connection gets
\* one commit or rollback from each task that tested the state before any
\* call returned, and the session is closed once a call has returned.
C34_CallsBeforeReturnAllReach ==
    [][/\ \A t \in Tasks :
            (task[t].at = "idle" /\ task'[t].at # "idle")
                => /\ state'[1] = state[1]
                   /\ state[1] = "closed"
                         => /\ task'[t].raised = ClosedError(impl, "closed")
                            /\ conn'[1] = conn[1]
                   /\ state[1] = "open"
                         => /\ task'[t].at = "awaiting"
                            /\ conn'[1].log
                                 = Append(conn[1].log,
                                          Entry("session", task'[t].op, "-", TRUE))
       /\ Cardinality(SessionFinals(conn[1].log, FinalMethods)) = Cardinality(Reached)
       /\ (\E t \in Tasks : task[t].at = "returned") => state[1] = "closed"]_vars

\* Two tasks called commit() and rollback() on the open session of a scope
\* that had written a row, each before the other had returned: both calls
\* reached the connection and returned, and a third call would be rejected.
C34_Witness ==
    /\ WritesOf(1) # {}
    /\ task[1] = [at |-> "returned", op |-> "commit", raised |-> NoError]
    /\ task[2] = [at |-> "returned", op |-> "rollback", raised |-> NoError]
    /\ state[1] = "closed"
    /\ Cardinality(SessionFinals(conn[1].log, FinalMethods)) = 2


(***************************************************************************)
(* Views: view_table() registers a CREATE VIEW on the MetaData's           *)
(* after_create event and a DROP VIEW on its before_drop event, each run   *)
(* only if its test of the connection says so.                             *)
(***************************************************************************)
\* sa.inspect(connection).get_view_names().
get_view_names(db) == db

\* _view_exists(ddl, target, connection): False when the connection gives
\* no inspector (NoInspectionAvailable).
view_exists(name, insp, db) ==
    IF insp THEN name \in get_view_names(db) ELSE FALSE

view_doesnt_existAlways(name, insp, db) == TRUE

view_doesnt_exist(name, insp, db) == ~view_exists(name, insp, db)

\* An emitted statement: its text, the view, and what emitted it.
Ddl(op, name, by) == [op |-> op, name |-> name, by |-> by]

\* The views of the database after the connection ran the statement; a
\* connection without inspector (a mock executor) runs nothing.
DbDdl(db, insp, op, name) ==
    IF ~insp THEN db
    ELSE IF op = "CREATE VIEW" THEN db \cup {name}
    ELSE db \ {name}

\* The test execute_if() was given for the listener of the event.
ExecuteIf(event, name, insp, db) ==
    IF event = "after_create" THEN view_doesnt_exist(name, insp, db)
    ELSE view_exists(name, insp, db)

StatementOf(event) == IF event = "after_create" THEN "CREATE VIEW" ELSE "DROP VIEW"

\* The MetaData dispatches the event to the listeners view_table() added,
\* in the order they were added; each emits its statement if its test holds.
RECURSIVE Dispatch(_, _, _, _, _)
Dispatch(event, reg, insp, db, log) ==
    IF reg = <<>> THEN [views |-> db, ddl |-> log]
    ELSE IF ExecuteIf(event, Head(reg), insp, db)
    THEN Dispatch(event, Tail(reg), insp,
                  DbDdl(db, insp, StatementOf(event), Head(reg)),
                  Append(log, Ddl(StatementOf(event), Head(reg), event)))
    ELSE Dispatch(event, Tail(reg), insp, db, log)

\* view_table(name, metadata, selectable).
ViewTable(name) ==
    /\ Len(registered) < MaxRegistered
    /\ registered' = Append(registered, name)
    /\ UNCHANGED <<impl, svars, evars, task, views, ddl, inspectable>>

\* The connection ran what the listeners of an event emitted.
Dispatched(r) ==
    /\ Len(r.ddl) <= MaxDdl
    /\ views' = r.views
    /\ ddl' = r.ddl
    /\ UNCHANGED <<impl, svars, evars, task, registered, inspectable>>

\* metadata.create_all(connection): the after_create event.
CreateAll ==
    LET r == Dispatch("after_create", registered, inspectable, views, ddl)
    IN  Dispatched(r)

\* metadata.drop_all(connection): the before_drop event.
DropAll ==
    LET r == Dispatch("before_drop", registered, inspectable, views, ddl)
    IN  Dispatched(r)

\* connection.execute(CreateView(name, query)) or
\* connection.execute(DropView(name)) by the caller, as in a migration.
CallerExecutes(op, name) ==
    /\ inspectable
    /\ Len(ddl) < MaxDdl
    /\ IF op = "CREATE VIEW" THEN name \notin views ELSE name \in views
    /\ views' = DbDdl(views, inspectable, op, name)
    /\ ddl' = Append(ddl, Ddl(op, name, "caller"))
    /\ UNCHANGED <<impl, svars, evars, task, registered, inspectable>>

\* A database that may hold views already, and a connection that gives an
\* inspector or none.
InitView ==
    /\ impl = "om_async"
    /\ auto_commit = TRUE
    /\ NoScopes
    /\ NoTasks
    /\ NoRuns
    /\ registered = <<>>
    /\ views \in SUBSET ViewNames
    /\ ddl = <<>>
    /\ inspectable \in BOOLEAN

NextView ==
    \/ \E name \in ViewNames : ViewTable(name)
    \/ CreateAll
    \/ DropAll
    \/ \E op \in {"CREATE VIEW", "DROP VIEW"}, name \in ViewNames : CallerExecutes(op, name)

SpecView == InitView /\ [][NextView]_vars

\* The statements emitted in this step.
Emitted == SubSeq(ddl', Len(ddl) + 1, Len(ddl'))

\* The view name exists when statement e of this step is emitted: what the
\* database held before the step, changed by the statements before e.
ExistsAt(name, e) ==
    LET before == {d \in 1..(e - 1) : Emitted[d].name = name}
    IN  IF before = {} THEN name \in views
        ELSE Emitted[Latest(before)].op = "CREATE VIEW"

\* C37: on a connection that gives an inspector, every CREATE VIEW a
\* create-all event emits is for a view that does not exist when it is
\* emitted and every DROP VIEW a drop-all event emits is for a view that
\* exists; and from every state, a create-all after a create-all, or a
\* drop-all after a drop-all, emits nothing and leaves the views as they are.
C37_ViewDdlOnlyWhenNeeded ==
    [][inspectable =>
          /\ \A e \in DOMAIN Emitted :
                /\ Emitted[e].by = "after_create"
                      => Emitted[e].op = "CREATE VIEW" /\ ~ExistsAt(Emitted[e].name, e)
                /\ Emitted[e].by = "before_drop"
                      => Emitted[e].op = "DROP VIEW" /\ ExistsAt(Emitted[e].name, e)
          /\ \A event \in {"after_create", "before_drop"} :
                LET once == Dispatch(event, registered, inspectable, views, ddl)
                IN  Dispatch(event, registered, inspectable, once.views, once.ddl) = once]_vars

\* The view EventPeriods was registered, created by a create-all, dropped by
\* a drop-all and created again by a create-all; another create-all now
\* would emit nothing.
C37_Witness ==
    /\ inspectable
    /\ registered = <<"EventPeriods">>
    /\ views = {"EventPeriods"}
    /\ ddl = <<Ddl("CREATE VIEW", "EventPeriods", "after_create"),
               Ddl("DROP VIEW", "EventPeriods", "before_drop"),
               Ddl("CREATE VIEW", "EventPeriods", "after_create")>>
    /\ Dispatch("after_create", registered, inspectable, views, ddl).ddl = ddl

====
